---- MODULE Spec2Model ----
(***************************************************************************)
(* A model of hextex: the HexTex application (tui.py) over a BinFile, with *)
(* its two DataTable grids (hex view, ASCII view).                         *)
(*                                                                         *)
(* The application is single threaded and event driven.  Each key binding  *)
(* action and each message handler is a synchronous method, so each is one *)
(* atomic action here.  A DataTable does not call the application back     *)
(* when its cursor moves: it posts a CellHighlighted message to its own    *)
(* message queue, and the message reaches                                  *)
(* HexTex.on_data_table_cell_highlighted later, after the method that      *)
(* moved the cursor has returned.  Each table's queue is FIFO; the order   *)
(* in which messages of the two tables reach the application is left to    *)
(* the scheduler (the Deliver action picks either table).                  *)
(***************************************************************************)
EXTENDS Integers, Sequences, FiniteSets, TLC

\* ------------------------------------------------------------------ bounds
\* Largest file size (bytes) drawn by Init.
MaxSize == 32
\* Most grid rows (HexTex.rows) of a file drawn by Init.
MaxRows == 4
\* Largest file (bytes) a BinFile is opened on.
MaxFile == 3
\* Largest offset passed to load_chunk and save_chunk.
MaxOffset == 4
\* Most bytes passed to save_chunk, or asked of load_chunk.
MaxCount == 2
\* Longest text typed into the goto prompt.
MaxLen == 2
\* The handler-invocation counter saturates here.
MaxSteps == 5

\* ------------------------------------------------------- program constants
FIXED_ROW_WIDTH == 16

WIDTH_OPTIONS == <<1, 2, 4, 8>>

\* The characters the goto prompt's text is drawn from.
Alphabet == {"0", "1", "F", "f", "z", "-"}

HexChars == <<"0", "1", "2", "3", "4", "5", "6", "7",
              "8", "9", "A", "B", "C", "D", "E", "F">>

\* ------------------------------------------------------------- BinFile data
\* The file sizes drawn by Init: whole rows, half a row more, one byte short.
Sizes == { n \in 0..MaxSize : n % FIXED_ROW_WIDTH \in {0, 8, 15} }

\* The bytes of a file of n bytes.
FileContents(n) ==
    { [i \in 1..n |-> (7 + 3 * n + 37 * (i - 1)) % 256] }

\* data[a:b] of Python, on a 1-based sequence.
Slice(seq, a, b) ==
    LET hi == IF b < Len(seq) THEN b ELSE Len(seq)
    IN  IF a >= hi THEN <<>> ELSE [i \in 1..(hi - a) |-> seq[a + i]]

Reverse(seq) ==
    [i \in 1..Len(seq) |-> seq[Len(seq) + 1 - i]]

RECURSIVE Flatten(_)
Flatten(seqs) ==
    IF seqs = <<>> THEN <<>> ELSE Head(seqs) \o Flatten(Tail(seqs))

\* ------------------------------------------------------------- formatting
\* f"{n:0{digits}X}" for 0 <= n < 16^digits: upper-case hex digits, zero padded.
RECURSIVE ToHex(_, _)
ToHex(n, digits) ==
    IF digits = 0 THEN <<>>
    ELSE ToHex(n \div 16, digits - 1) \o <<HexChars[(n % 16) + 1]>>

\* The "<" reading applied whatever the prefix.
UnpackGroup_FileOrder(group, little) ==
    group

\* struct.unpack of one group of bytes as an unsigned integer.  The integer is
\* held as its base-256 limbs, least significant first (a 64-bit value does not
\* fit TLC's integers): "<" takes the bytes in file order as the limbs,
\* ">" takes them reversed.
UnpackGroup(group, little) ==
    IF little THEN group ELSE Reverse(group)

\* f"{v:0{2w}X}" of an integer held as w limbs: two digits per limb, most
\* significant limb first.
FormatLimbs(limbs) ==
    Flatten([i \in 1..Len(limbs) |-> ToHex(limbs[Len(limbs) + 1 - i], 2)])

\* The lower bound taken as exclusive.
AsciiCell_SpaceExcluded(b) ==
    IF 32 < b /\ b <= 126 THEN b ELSE 46

\* chr(b) if 32 <= b <= 126 else ".": a character is held as its code point,
\* "." being 46.
AsciiCell(b) ==
    IF 32 <= b /\ b <= 126 THEN b ELSE 46

\* ------------------------------------------------------------ int(s, 16)
DigitValue(ch) ==
    CASE ch = "0" -> 0
      [] ch = "1" -> 1
      [] ch = "F" -> 15
      [] ch = "f" -> 15
      [] OTHER -> -1

RECURSIVE DigitsValue(_)
\* The value of a non-empty sequence of hexadecimal digits.
DigitsValue(s) ==
    IF Len(s) = 0 THEN 0
    ELSE 16 * DigitsValue(SubSeq(s, 1, Len(s) - 1)) + DigitValue(s[Len(s)])

\* Python's int(s, 16) on texts over Alphabet: an optional sign, then at least
\* one hexadecimal digit of either case; anything else raises ValueError.
ParseHex(s) ==
    LET neg == Len(s) > 0 /\ s[1] = "-"
        body == IF neg THEN Tail(s) ELSE s
        ok == Len(body) > 0 /\ \A i \in 1..Len(body) : DigitValue(body[i]) >= 0
    IN  IF ~ok THEN [ok |-> FALSE, v |-> 0]
        ELSE [ok |-> TRUE, v |-> IF neg THEN 0 - DigitsValue(body) ELSE DigitsValue(body)]

Texts == UNION { [1..n -> Alphabet] : n \in 0..MaxLen }

\* ------------------------------------------------------------- DataTable
\* A DataTable: its column headers, its rows, its cursor coordinate and the
\* CellHighlighted messages it has posted that the application has not yet
\* handled (each message carries the coordinate it was posted for).

\* textual.geometry.clamp: the bounds may come in reverse order.
Clamp(v, lo, hi) ==
    LET mn == IF lo > hi THEN hi ELSE lo
        mx == IF lo > hi THEN lo ELSE hi
    IN  IF v < mn THEN mn ELSE IF v > mx THEN mx ELSE v

NewTable == [columns |-> <<>>, rows |-> <<>>, cursor |-> <<0, 0>>, queue |-> <<>>]

CellExists(t, coord) ==
    /\ 0 <= coord[1] /\ coord[1] < Len(t.rows)
    /\ 0 <= coord[2] /\ coord[2] < Len(t.columns)

\* The cursor_coordinate setter: validate (clamp into the table), and when the
\* coordinate changes and holds a cell, post CellHighlighted for it.
SetCursor(t, coord) ==
    LET new == << Clamp(coord[1], 0, Len(t.rows) - 1),
                  Clamp(coord[2], 0, Len(t.columns) - 1) >>
    IN  IF new = t.cursor THEN t
        ELSE [t EXCEPT !.cursor = new,
                       !.queue = IF CellExists(t, new) THEN Append(@, new) ELSE @]

\* DataTable.move_cursor(row=r, column=c, animate=False, scroll=True)
MoveCursor(t, r, c) ==
    SetCursor(t, <<r, c>>)

\* DataTable.clear(): drops the rows, keeps the columns, cursor to (0, 0).
ClearTable(t) ==
    SetCursor([t EXCEPT !.rows = <<>>], <<0, 0>>)

\* remove_column for every key, then add_columns(*headers).
ReplaceColumns(t, headers) ==
    [t EXCEPT !.columns = headers]

\* DataTable.add_row(*cells, label=label): cells missing on the right are None;
\* the first row of a table with columns makes the cursor's cell exist, and
\* CellHighlighted is posted for it.
AddRow(t, cells, label) ==
    LET t1 == [t EXCEPT !.rows = Append(@, [label |-> label, cells |-> cells])]
        t2 == [t1 EXCEPT !.cursor = << Clamp(@[1], 0, Len(t1.rows) - 1),
                                       Clamp(@[2], 0, Len(t1.columns) - 1) >>]
    IN  IF Len(t2.rows) = 1 /\ Len(t2.columns) > 0
        THEN [t2 EXCEPT !.queue = Append(@, t2.cursor)]
        ELSE t2

\* ---------------------------------------------------------------- HexTex
VARIABLES
    phase,          \* "constructed" (before on_mount), "running", "crashed"
    size,           \* binfile.size = len(binfile.data)
    data,           \* binfile.data
    width,          \* HexTex.width
    index,          \* HexTex.index
    columns,        \* HexTex.columns
    row_depth,      \* HexTex.row_depth
    rows,           \* HexTex.rows
    little_endian,  \* HexTex.little_endian
    offset,         \* HexTex.offset
    ignore_change,  \* HexTex.ignore_change
    hex_table,      \* HexTex.hex_table
    ascii_table,    \* HexTex.ascii_table
    op,             \* history: the last user operation
    pre_offset,     \* history: offset before the current run of toggles
    steps,          \* history: handler invocations since the last cursor move
    disk,           \* the bytes of the file at BinFile.path
    bin_op          \* history: the last BinFile call, with the file before it

vars == << phase, size, data, width, index, columns, row_depth, rows,
           little_endian, offset, ignore_change, hex_table, ascii_table,
           op, pre_offset, steps, disk, bin_op >>

\* The application's mutable fields as one value, for the methods below.
App ==
    [ width |-> width, columns |-> columns, row_depth |-> row_depth,
      rows |-> rows, little_endian |-> little_endian, offset |-> offset,
      ignore_change |-> ignore_change, hex_table |-> hex_table,
      ascii_table |-> ascii_table, raised |-> FALSE ]

Commit(s) ==
    /\ width' = s.width
    /\ columns' = s.columns
    /\ row_depth' = s.row_depth
    /\ rows' = s.rows
    /\ little_endian' = s.little_endian
    /\ offset' = s.offset
    /\ ignore_change' = s.ignore_change
    /\ hex_table' = s.hex_table
    /\ ascii_table' = s.ascii_table
    /\ phase' = IF s.raised THEN "crashed" ELSE "running"
    /\ UNCHANGED << size, data, index, disk, bin_op >>

IndexOf(w) ==
    CHOOSE i \in 1..Len(WIDTH_OPTIONS) : WIDTH_OPTIONS[i] = w

\* No BinFile method has been called.
NoCall ==
    [kind |-> "none", offset |-> 0, count |-> 0, bytes |-> <<>>, before |-> <<>>]

\* The values of --width tried on the command line.
WidthArguments == {0, 1, 2, 3, 4, 8, 16}

\* cli.py's width_choices.
width_choices == <<1, 2, 4, 8>>

\* add_parser's choices=width_choices: parse_args exits with an error for any
\* other value, before BinFile and HexTex are constructed.
Accepted(w) ==
    \E i \in 1..Len(width_choices) : width_choices[i] = w

\* HexTex.__init__(bf, width) for an accepted --width; for a rejected one the
\* program has ended and no field of the application exists (width keeps the
\* argument, the other fields are blank).
Init ==
    /\ size \in Sizes
    /\ data \in FileContents(size)
    /\ width \in WidthArguments
    /\ phase = IF Accepted(width) THEN "constructed" ELSE "rejected"
    /\ index = IF Accepted(width) THEN IndexOf(width) - 1 ELSE 0
    /\ columns = IF Accepted(width) THEN 16 \div width ELSE 0
    /\ row_depth = columns * width
    /\ rows = IF Accepted(width) THEN size \div columns ELSE 0
    /\ rows <= MaxRows
    /\ little_endian = TRUE
    /\ offset = 0
    /\ ignore_change = FALSE
    /\ hex_table = NewTable
    /\ ascii_table = NewTable
    /\ op = [kind |-> "none", a |-> 0, b |-> 0]
    /\ pre_offset = -1
    /\ steps = 0
    /\ disk = data
    /\ bin_op = NoCall

\* set_columns: both tables cleared, their columns replaced, columns set from
\* the width.  Headers are the f-strings of the source.
HexHeaders(w) ==
    [k \in 1..(FIXED_ROW_WIDTH \div w) |-> <<"0", "x">> \o ToHex((k - 1) * w, 2 * w)]

AsciiHeaders ==
    [k \in 1..FIXED_ROW_WIDTH |-> ToHex(k - 1, 1)]

\* set_columns without the assignment to columns.
SetColumns_StaleColumns(s) ==
    LET hexh == HexHeaders(s.width)
    IN  [s EXCEPT !.hex_table = ReplaceColumns(ClearTable(@), hexh),
                  !.ascii_table = ReplaceColumns(ClearTable(@), AsciiHeaders),
                  !.raised = @ \/ Len(hexh) # s.columns]

SetColumns(s) ==
    LET cols == CASE s.width = 1 -> 16
                  [] s.width = 2 -> 8
                  [] s.width = 4 -> 4
                  [] s.width = 8 -> 2
        hexh == HexHeaders(s.width)
    IN  [s EXCEPT !.columns = cols,
                  !.hex_table = ReplaceColumns(ClearTable(@), hexh),
                  !.ascii_table = ReplaceColumns(ClearTable(@), AsciiHeaders),
                  !.raised = @ \/ Len(hexh) # cols]

\* The row offset taken as row * columns.
Chunk_ColumnsStride(s, row) ==
    Slice(data, row * s.columns, (row * s.columns) + s.row_depth)

\* The chunk of one row: data[row_offset : row_offset + row_depth].
Chunk(s, row) ==
    Slice(data, row * s.row_depth, row * s.row_depth + s.row_depth)

\* struct.unpack(f"{prefix}{len(chunk)//w}{code}", chunk) raises struct.error
\* unless the chunk is exactly len(chunk)//w groups long; width 1 never unpacks.
UnpackFails(chunk, w) ==
    w # 1 /\ (Len(chunk) \div w) * w # Len(chunk)

\* hex_values of one row.
HexValues(chunk, w, little) ==
    [k \in 1..(Len(chunk) \div w) |->
        FormatLimbs(UnpackGroup(Slice(chunk, (k - 1) * w, k * w), little))]

\* ascii_values of one row.
AsciiValues(chunk) ==
    [i \in 1..Len(chunk) |-> AsciiCell(chunk[i])]

RowLabel(s, row) ==
    ToHex(row * s.row_depth, 8)

\* The first row of range(rows) whose unpack raises, or rows when none does.
FirstFailingRow(s) ==
    LET bad == { r \in 0..(s.rows - 1) : UnpackFails(Chunk(s, r), s.width) }
    IN  IF bad = {} THEN s.rows
        ELSE CHOOSE r \in bad : \A q \in bad : r <= q

\* The coordinate refresh_display and goto move the cursors to:
\* row = offset // row_depth, col = (offset % row_depth) // width.
OffsetToCoordinate(s, off) ==
    << off \div s.row_depth, (off % s.row_depth) \div s.width >>

\* The offset the cell-highlighted handler stores for a coordinate:
\* (row * row_depth) + (column).
CoordinateToOffset(s, coord) ==
    (coord[1] * s.row_depth) + coord[2]

RECURSIVE AddRows(_, _)
\* The add_row calls of refresh_display's loop on one table; each element of
\* rendered is << cells, label >>.
AddRows(t, rendered) ==
    IF rendered = <<>> THEN t
    ELSE AddRows(AddRow(t, Head(rendered)[1], Head(rendered)[2]), Tail(rendered))

\* refresh_display: clear, one row per range(rows), then both cursors moved to
\* the coordinate of offset.  A struct.error leaves the method at the row that
\* raised it.
RefreshDisplay(s) ==
    LET n == FirstFailingRow(s)
        hexRows == [k \in 1..n |->
                      << HexValues(Chunk(s, k - 1), s.width, s.little_endian),
                         RowLabel(s, k - 1) >>]
        asciiRows == [k \in 1..n |->
                        << AsciiValues(Chunk(s, k - 1)), RowLabel(s, k - 1) >>]
        hex1 == AddRows(ClearTable(s.hex_table), hexRows)
        ascii1 == AddRows(ClearTable(s.ascii_table), asciiRows)
        row_to_show == OffsetToCoordinate(s, s.offset)[1]
        col_to_show == OffsetToCoordinate(s, s.offset)[2]
    IN  IF n < s.rows
        THEN [s EXCEPT !.hex_table = hex1, !.ascii_table = ascii1, !.raised = TRUE]
        ELSE [s EXCEPT !.hex_table = MoveCursor(hex1, row_to_show, col_to_show),
                       !.ascii_table = MoveCursor(ascii1, row_to_show, col_to_show)]

\* ignore_change = True; set_columns(); refresh_display(); ignore_change = False.
\* An exception leaves before the flag is cleared.
Rebuild(s) ==
    LET s1 == SetColumns([s EXCEPT !.ignore_change = TRUE])
        s2 == IF s1.raised THEN s1 ELSE RefreshDisplay(s1)
    IN  IF s2.raised THEN s2 ELSE [s2 EXCEPT !.ignore_change = FALSE]

Idle ==
    /\ phase = "running"
    /\ hex_table.queue = <<>>
    /\ ascii_table.queue = <<>>

\* on_mount
Mount ==
    /\ phase = "constructed"
    /\ Commit(Rebuild(App))
    /\ op' = [kind |-> "mount", a |-> 0, b |-> 0]
    /\ pre_offset' = -1
    /\ steps' = 0

\* A variant of the handler whose hex branch scales the column by the width
\* when it moves the ASCII cursor, and whose ASCII branch does not divide it.
OnCellHighlighted_ScaledEcho(s, id, coord) ==
    LET row == coord[1]
        column == coord[2]
    IN  IF s.ignore_change THEN s
        ELSE IF id = "hex-view"
        THEN [s EXCEPT !.offset = CoordinateToOffset(s, coord),
                       !.ascii_table = MoveCursor(@, row, column * s.width)]
        ELSE [s EXCEPT !.offset = CoordinateToOffset(s, coord),
                       !.hex_table = MoveCursor(@, row, column)]

\* on_data_table_cell_highlighted(event), event posted by table id for coord.
OnCellHighlighted(s, id, coord) ==
    LET row == coord[1]
        column == coord[2]
    IN  IF s.ignore_change THEN s
        ELSE IF id = "hex-view"
        THEN [s EXCEPT !.offset = CoordinateToOffset(s, coord),
                       !.ascii_table = MoveCursor(@, row, column)]
        ELSE [s EXCEPT !.offset = CoordinateToOffset(s, coord),
                       !.hex_table = MoveCursor(@, row, column)]

\* The message pump hands the oldest pending CellHighlighted of one table to
\* the handler.
Deliver(id) ==
    /\ phase = "running"
    /\ LET t == IF id = "hex-view" THEN hex_table ELSE ascii_table
       IN  /\ t.queue # <<>>
           /\ LET popped == IF id = "hex-view"
                            THEN [App EXCEPT !.hex_table.queue = Tail(@)]
                            ELSE [App EXCEPT !.ascii_table.queue = Tail(@)]
              IN  Commit(OnCellHighlighted(popped, id, Head(t.queue)))
    /\ steps' = IF op.kind \in {"hex_move", "ascii_move"} /\ steps < MaxSteps
                THEN steps + 1 ELSE steps
    /\ UNCHANGED << op, pre_offset >>

\* The cursor keys: DataTable.action_cursor_up/down/left/right set
\* cursor_coordinate one cell away (the setter clamps it into the table).
Directions == {"up", "down", "left", "right"}

Step(coord, dir) ==
    CASE dir = "up" -> << coord[1] - 1, coord[2] >>
      [] dir = "down" -> << coord[1] + 1, coord[2] >>
      [] dir = "left" -> << coord[1], coord[2] - 1 >>
      [] dir = "right" -> << coord[1], coord[2] + 1 >>

\* The user moves the hex grid's cursor by one cell: the table sets its
\* cursor_coordinate and posts CellHighlighted.  A key that cannot move the
\* cursor (at an edge, in an empty table) posts nothing.
UserMoveHex(dir) ==
    LET moved == SetCursor(hex_table, Step(hex_table.cursor, dir))
    IN  /\ Idle
        /\ moved.queue # <<>>
        /\ Commit([App EXCEPT !.hex_table = moved])
        /\ op' = [kind |-> "hex_move", a |-> moved.cursor[1], b |-> moved.cursor[2]]
        /\ pre_offset' = -1
        /\ steps' = 0

\* The same in the ASCII grid.
UserMoveAscii(dir) ==
    LET moved == SetCursor(ascii_table, Step(ascii_table.cursor, dir))
    IN  /\ Idle
        /\ moved.queue # <<>>
        /\ Commit([App EXCEPT !.ascii_table = moved])
        /\ op' = [kind |-> "ascii_move", a |-> moved.cursor[1], b |-> moved.cursor[2]]
        /\ pre_offset' = -1
        /\ steps' = 0

\* A variant of the callback that omits the upper bound of the range check.
NewOffset_NoUpperBound(s, text) ==
    LET parsed == ParseHex(text)
        new_offset == parsed.v
    IN  IF ~parsed.ok THEN s
        ELSE IF 0 <= new_offset
        THEN LET r == OffsetToCoordinate(s, new_offset)[1]
                 c == OffsetToCoordinate(s, new_offset)[2]
             IN  [s EXCEPT !.offset = new_offset,
                           !.hex_table = MoveCursor(@, r, c)]
        ELSE s

\* action_goto_offset's callback new_offset(offset_str), called with the text
\* of the prompt.
NewOffset(s, text) ==
    LET parsed == ParseHex(text)
        new_offset == parsed.v
    IN  IF ~parsed.ok THEN s
        ELSE IF 0 <= new_offset /\ new_offset < size
        THEN LET r == OffsetToCoordinate(s, new_offset)[1]
                 c == OffsetToCoordinate(s, new_offset)[2]
             IN  [s EXCEPT !.offset = new_offset,
                           !.hex_table = MoveCursor(@, r, c)]
        ELSE s

GotoKind(text) ==
    LET parsed == ParseHex(text)
    IN  IF ~parsed.ok THEN "goto_value_error"
        ELSE IF 0 <= parsed.v /\ parsed.v < size THEN "goto"
        ELSE "goto_out_of_range"

GotoOffset(text) ==
    /\ Idle
    /\ Commit(NewOffset(App, text))
    /\ op' = [kind |-> GotoKind(text),
              a |-> IF GotoKind(text) = "goto" THEN ParseHex(text).v ELSE -1,
              b |-> 0]
    /\ pre_offset' = -1
    /\ steps' = 0

\* The index advanced by two.
ToggleWidthBody_SkipsOne(s) ==
    LET current_index == IndexOf(s.width) - 1
        new_index == (current_index + 2) % Len(WIDTH_OPTIONS)
    IN  Rebuild([s EXCEPT !.width = WIDTH_OPTIONS[new_index + 1]])

\* action_toggle_width
ToggleWidthBody(s) ==
    LET current_index == IndexOf(s.width) - 1
        new_index == (current_index + 1) % Len(WIDTH_OPTIONS)
    IN  Rebuild([s EXCEPT !.width = WIDTH_OPTIONS[new_index + 1]])

ToggleWidth ==
    /\ Idle
    /\ Commit(ToggleWidthBody(App))
    /\ pre_offset' = IF op.kind = "toggle_width" THEN pre_offset ELSE offset
    /\ op' = [kind |-> "toggle_width", a |-> 0, b |-> 0]
    /\ steps' = 0

\* action_toggle_endianness
ToggleEndiannessBody(s) ==
    Rebuild([s EXCEPT !.little_endian = ~@])

ToggleEndianness ==
    /\ Idle
    /\ Commit(ToggleEndiannessBody(App))
    /\ pre_offset' = offset
    /\ op' = [kind |-> "toggle_endianness", a |-> 0, b |-> 0]
    /\ steps' = 0

Next ==
    \/ Mount
    \/ \E dir \in Directions : UserMoveHex(dir)
    \/ \E dir \in Directions : UserMoveAscii(dir)
    \/ \E text \in Texts : GotoOffset(text)
    \/ ToggleWidth
    \/ ToggleEndianness
    \/ Deliver("hex-view")
    \/ Deliver("ascii-view")

Spec == Init /\ [][Next]_vars

\* ----------------------------------------------------------------- BinFile
\* bin.py on its own: a BinFile over a file, its two methods called in any
\* order.  No application is constructed.
ByteValues == {1, 2}

DiskFiles == UNION { [1..n -> ByteValues] : n \in 0..MaxFile }

Payloads == UNION { [1..n -> ByteValues] : n \in 0..MaxCount }

\* BinFile.__init__: size = os.path.getsize(filepath).
BinInit ==
    /\ disk \in DiskFiles
    /\ bin_op = NoCall
    /\ phase = "binfile"
    /\ size = Len(disk)
    /\ data = <<>>
    /\ width = 1
    /\ index = 0
    /\ columns = 0
    /\ row_depth = 0
    /\ rows = 0
    /\ little_endian = TRUE
    /\ offset = 0
    /\ ignore_change = FALSE
    /\ hex_table = NewTable
    /\ ascii_table = NewTable
    /\ op = [kind |-> "none", a |-> 0, b |-> 0]
    /\ pre_offset = -1
    /\ steps = 0

\* open(path, "rb"); seek(offset); read(count): the bytes from offset, at most
\* count of them, none at or past the end of the file.
LoadChunkBody(file, off, count) ==
    Slice(file, off, off + count)

\* open(path, "w+b"); seek(offset); write(data): "w+b" truncates the file to
\* no bytes on open; a write after a seek past the end fills the gap with
\* zero bytes; writing no bytes leaves the file empty.
SaveChunkBody(file, off, bytes) ==
    IF bytes = <<>> THEN <<>>
    ELSE [i \in 1..(off + Len(bytes)) |-> IF i <= off THEN 0 ELSE bytes[i - off]]

BinFrame ==
    UNCHANGED << phase, size, data, width, index, columns, row_depth, rows,
                 little_endian, offset, ignore_change, hex_table, ascii_table,
                 op, pre_offset, steps >>

LoadChunk(off, count) ==
    /\ disk' = disk
    /\ bin_op' = [kind |-> "load", offset |-> off, count |-> count,
                  bytes |-> LoadChunkBody(disk, off, count), before |-> disk]
    /\ BinFrame

SaveChunk(off, bytes) ==
    /\ disk' = SaveChunkBody(disk, off, bytes)
    /\ bin_op' = [kind |-> "save", offset |-> off, count |-> Len(bytes),
                  bytes |-> bytes, before |-> disk]
    /\ BinFrame

BinNext ==
    \/ \E off \in 0..MaxOffset, count \in 0..MaxCount : LoadChunk(off, count)
    \/ \E off \in 0..MaxOffset, bytes \in Payloads : SaveChunk(off, bytes)

BinSpec == BinInit /\ [][BinNext]_vars

\* ------------------------------------------------------------ properties
\* The byte the ASCII grid's highlighted cell denotes.
AsciiByte ==
    (ascii_table.cursor[1] * row_depth) + ascii_table.cursor[2]

\* The first byte of the group the hex grid's highlighted cell denotes.
HexGroupStart ==
    (hex_table.cursor[1] * row_depth) + (hex_table.cursor[2] * width)

HexCellHolds(byte) ==
    HexGroupStart <= byte /\ byte < HexGroupStart + width

HasCells ==
    CellExists(hex_table, hex_table.cursor) /\ CellExists(ascii_table, ascii_table.cursor)

Pending ==
    Len(hex_table.queue) + Len(ascii_table.queue)

\* C1: once a run of width toggles and every notification it raised have been
\* handled, offset equals its value before the first toggle of the run.
C1_ToggleWidthKeepsOffset ==
    (Idle /\ op.kind = "toggle_width") => offset = pre_offset

\* C2: once any operation has been fully handled, both grids denote offset:
\* the ASCII cell is byte offset, the hex cell is the group holding it.
C2_GridsDenoteOffset ==
    (Idle /\ HasCells /\ op.kind \in {"hex_move", "ascii_move", "goto",
                                      "toggle_width", "toggle_endianness"})
        => (AsciiByte = offset /\ HexCellHolds(offset))

\* C3: once an accepted goto to v and every notification it raised have been
\* handled, offset = v and the hex grid highlights the group holding byte v.
C3_GotoReachesOffset ==
    (Idle /\ op.kind = "goto") => (offset = op.a /\ HexCellHolds(op.a))

\* C4: a goto whose text does not parse, or parses to a value outside
\* [0, size), changes no field of the application nor either grid, and raises
\* nothing.
C4_RejectedGotoChangesNothing ==
    [][op'.kind \in {"goto_value_error", "goto_out_of_range"}
         => UNCHANGED << phase, size, data, width, index, columns, row_depth, rows,
                         little_endian, offset, ignore_change, hex_table,
                         ascii_table >>]_vars

C4_Witness ==
    /\ op.kind \in {"goto_value_error", "goto_out_of_range"}
    /\ offset > 0
    /\ hex_table.cursor # <<0, 0>>

\* C5: for every offset of the file, the handler's conversion applied to the
\* hex coordinate of the offset gives the offset back.
C5_InverseLaw ==
    phase = "running"
        => \A off \in 0..(size - 1) :
               CoordinateToOffset(App, OffsetToCoordinate(App, off)) = off

\* C6: a cursor move in the hex grid to (row, col), once its notification is
\* handled, leaves offset = row * row_depth + col * width.
C6_HexMoveSetsGroupStart ==
    (op.kind = "hex_move" /\ steps >= 1)
        => offset = (op.a * row_depth) + (op.b * width)

\* C7: a cursor move in the ASCII grid to (row, col), once fully handled,
\* leaves offset = row * row_depth + col, the ASCII cursor on (row, col) and
\* the hex cursor on the group holding that byte.
C7_AsciiMoveKeepsCell ==
    (Idle /\ op.kind = "ascii_move")
        => /\ offset = (op.a * row_depth) + op.b
           /\ ascii_table.cursor = << op.a, op.b >>
           /\ HexCellHolds((op.a * row_depth) + op.b)

\* C8: a cursor move in either grid causes at most three invocations of the
\* cell-highlighted handler, after which no notification is pending; at no
\* time is more than one pending.
C8_SyncTerminates ==
    op.kind \in {"hex_move", "ascii_move"}
        => /\ steps <= 3
           /\ Pending <= 1
           /\ steps = 3 => Pending = 0

C8_Witness ==
    /\ op.kind = "ascii_move"
    /\ steps = 3
    /\ Idle
    /\ width > 1

\* C9: while the application runs on a non-empty file, 0 <= offset < size.
C9_OffsetInFile ==
    (phase = "running" /\ size > 0) => (0 <= offset /\ offset < size)

\* C10: toggle_endianness changes little_endian only: offset, width, columns
\* and row_depth stay, and each grid's highlighted cell denotes the same byte
\* as before.
C10_ToggleEndiannessFrame ==
    [][(little_endian' # little_endian /\ HasCells)
         => /\ UNCHANGED << offset, width, columns, row_depth >>
            /\ AsciiByte' = AsciiByte
            /\ HexGroupStart' = HexGroupStart]_vars

\* The operations whose cursor moves are all made by the application.
ProgrammaticKinds == {"mount", "goto", "toggle_width", "toggle_endianness"}

\* A notification is about to be handled and the move that raised it was made
\* by the application: any notification after a mount, goto or toggle, and,
\* after a user's cursor move, every notification but the first.
ProgrammaticNotification ==
    /\ phase = "running"
    /\ Pending > 0
    /\ \/ op.kind \in ProgrammaticKinds
       \/ op.kind \in {"hex_move", "ascii_move"} /\ steps >= 1

\* C11: every notification raised by a move the application made reaches the
\* cell-highlighted handler while ignore_change is set, so the handler returns
\* without treating it as a user's move: the step that handles it leaves
\* offset and both cursors alone.
C11_ProgrammaticMovesSuppressed ==
    [][ProgrammaticNotification
         => /\ ignore_change
            /\ UNCHANGED << offset, hex_table.cursor, ascii_table.cursor >>]_vars

\* C12: whenever no handler is in progress, that is in every state once
\* on_mount has been entered, ignore_change is clear, also after a re-render
\* that raised.
C12_FlagClearWhenIdle ==
    phase \in {"running", "crashed"} => ignore_change = FALSE

\* C13: rendering never raises, and every rendered row whose chunk is n bytes
\* long has n \div width hex cells: a partial trailing group is dropped.
C13_PartialGroupDropped ==
    phase \in {"running", "crashed"}
        => /\ phase = "running"
           /\ Len(hex_table.rows) = rows
           /\ \A r \in 1..Len(hex_table.rows) :
                  Len(hex_table.rows[r].cells) = Len(Chunk(App, r - 1)) \div width

\* The value of a hexadecimal digit of a rendered cell.
HexDigitOf(ch) ==
    CHOOSE d \in 0..15 : HexChars[d + 1] = ch

\* The base-256 digit of weight 256^i of the number a rendered hex cell shows.
CellLimb(cell, i) ==
    LET pair == (Len(cell) \div 2) - 1 - i
    IN  (16 * HexDigitOf(cell[(2 * pair) + 1])) + HexDigitOf(cell[(2 * pair) + 2])

RECURSIVE CellValue(_)
\* The number a rendered hex cell shows.
CellValue(cell) ==
    IF cell = <<>> THEN 0
    ELSE (16 * CellValue(SubSeq(cell, 1, Len(cell) - 1))) + HexDigitOf(cell[Len(cell)])

RECURSIVE WeightedSum(_, _)
\* The sum over i of bytes[i] * 256^i, or of bytes[i] * 256^(w-1-i).
WeightedSum(bytes, little) ==
    IF bytes = <<>> THEN 0
    ELSE IF little THEN Head(bytes) + (256 * WeightedSum(Tail(bytes), little))
    ELSE (256 * WeightedSum(SubSeq(bytes, 1, Len(bytes) - 1), little)) + bytes[Len(bytes)]

\* The rows of the hex grid whose 16 bytes all lie inside the file.
FullRows ==
    { r \in 0..(Len(hex_table.rows) - 1) : (r * FIXED_ROW_WIDTH) + FIXED_ROW_WIDTH <= size }

\* C14: in every full row, cell k shows, in 2 * width hexadecimal digits (so a
\* value in [0, 256^width)), the number whose base-256 digit of weight 256^i
\* is byte k*width+i of the row when little_endian is set and byte
\* k*width+(width-1-i) otherwise; for widths 1 and 2, whose values fit
\* TLC's integers, the number shown equals the weighted sum itself.
C14_CellValue ==
    \A r \in FullRows :
        LET cells == hex_table.rows[r + 1].cells
            byte(j) == data[(r * FIXED_ROW_WIDTH) + j + 1]
        IN  /\ Len(cells) = FIXED_ROW_WIDTH \div width
            /\ \A k \in 0..(Len(cells) - 1) :
                   /\ Len(cells[k + 1]) = 2 * width
                   /\ \A i \in 0..(width - 1) :
                          CellLimb(cells[k + 1], IF little_endian THEN i ELSE width - 1 - i)
                              = byte((k * width) + i)
                   /\ width <= 2
                          => CellValue(cells[k + 1])
                                 = WeightedSum([i \in 1..width |-> byte((k * width) + i - 1)],
                                               little_endian)

C14_Witness ==
    /\ phase = "running"
    /\ ~little_endian
    /\ width = 8
    /\ FullRows # {}
    /\ hex_table.rows[1].cells[1] # hex_table.rows[1].cells[2]

\* The number of bytes of the file in the 16-byte range of row r (from 0).
BytesInRow(r) ==
    LET left == size - (r * FIXED_ROW_WIDTH)
    IN  IF left <= 0 THEN 0
        ELSE IF left < FIXED_ROW_WIDTH THEN left ELSE FIXED_ROW_WIDTH

\* C15 as stated: every rendered row has exactly columns hex cells and exactly
\* row_depth ASCII cells, and its label is its index times row_depth.
C15_EveryRowFull ==
    /\ Len(ascii_table.rows) = Len(hex_table.rows)
    /\ \A r \in 1..Len(hex_table.rows) :
           /\ Len(hex_table.rows[r].cells) = columns
           /\ Len(ascii_table.rows[r].cells) = row_depth
           /\ CellValue(hex_table.rows[r].label) = (r - 1) * row_depth
           /\ ascii_table.rows[r].label = hex_table.rows[r].label

\* C15: every rendered row has exactly n \div width hex cells and exactly n
\* ASCII cells, n being the number of bytes of the file in the row's range
\* (columns and 16 for a row that lies inside the file), and its label is its
\* index times row_depth.
C15_RowShape ==
    /\ Len(ascii_table.rows) = Len(hex_table.rows)
    /\ \A r \in 1..Len(hex_table.rows) :
           /\ Len(hex_table.rows[r].cells) = BytesInRow(r - 1) \div width
           /\ Len(ascii_table.rows[r].cells) = BytesInRow(r - 1)
           /\ BytesInRow(r - 1) = FIXED_ROW_WIDTH
                  => Len(hex_table.rows[r].cells) = columns
           /\ CellValue(hex_table.rows[r].label) = (r - 1) * row_depth
           /\ ascii_table.rows[r].label = hex_table.rows[r].label

C15_Witness ==
    /\ phase = "running"
    /\ op.kind = "toggle_width"
    /\ size = 24
    /\ Len(hex_table.rows) = 3
    /\ Len(ascii_table.rows[2].cells) = 8

\* C16: at every width, each row of the ASCII grid has one cell per byte of
\* the file in the row's range, and the cell of byte b holds the character
\* with code b when 32 <= b <= 126 and "." (code 46) otherwise.
C16_AsciiCells ==
    \A r \in 1..Len(ascii_table.rows) :
        LET cells == ascii_table.rows[r].cells
        IN  /\ Len(cells) = BytesInRow(r - 1)
            /\ \A j \in 1..Len(cells) :
                   LET b == data[((r - 1) * FIXED_ROW_WIDTH) + j]
                   IN  /\ (32 <= b /\ b <= 126) => cells[j] = b
                       /\ (b < 32 \/ b > 126) => cells[j] = 46

\* A rendered row holding a space, a printable byte, a byte below 32 and a
\* byte above 126, at a width above 1.
C16_Witness ==
    /\ phase = "running"
    /\ width > 1
    /\ Len(ascii_table.rows) >= 1
    /\ \E j \in 1..Len(ascii_table.rows[1].cells) : data[j] = 32
    /\ \E j \in 1..Len(ascii_table.rows[1].cells) : data[j] < 32
    /\ \E j \in 1..Len(ascii_table.rows[1].cells) : data[j] > 126
    /\ \E j \in 1..Len(ascii_table.rows[1].cells) :
           data[j] > 32 /\ data[j] <= 126 /\ ascii_table.rows[1].cells[j] = data[j]

\* C17: in every state from mount on, columns = 16 / width exactly,
\* row_depth = columns * width = 16, the hex grid has columns headers and the
\* ASCII grid has 16.
C17_LayoutInvariant ==
    phase \in {"running", "crashed"}
        => /\ columns * width = FIXED_ROW_WIDTH
           /\ columns = FIXED_ROW_WIDTH \div width
           /\ row_depth = columns * width
           /\ row_depth = 16
           /\ Len(hex_table.columns) = columns
           /\ Len(ascii_table.columns) = 16

C17_Witness ==
    /\ phase = "running"
    /\ op.kind = "toggle_endianness"
    /\ width = 8
    /\ WIDTH_OPTIONS[index + 1] = 2
    /\ Len(hex_table.columns) = 2

\* The successor of a width in the cycle 1 -> 2 -> 4 -> 8 -> 1.
CycleNext(w) ==
    CASE w = 1 -> 2
      [] w = 2 -> 4
      [] w = 4 -> 8
      [] w = 8 -> 1

\* Four width toggles in a row from the present state, none of which raised,
\* give back the present width and column count.
FourTogglesRestore ==
    LET s1 == ToggleWidthBody(App)
        s2 == ToggleWidthBody(s1)
        s3 == ToggleWidthBody(s2)
        s4 == ToggleWidthBody(s3)
    IN  /\ s1.width # width
        /\ s2.width # width
        /\ s3.width # width
        /\ ~(s1.raised \/ s2.raised \/ s3.raised \/ s4.raised)
               => (s4.width = width /\ s4.columns = columns)

\* C18: a --width outside {1, 2, 4, 8} is rejected at construction, and the
\* rejected program takes no step; otherwise width is in {1, 2, 4, 8} in every
\* state, every width toggle sets it to its successor in the cycle
\* 1 -> 2 -> 4 -> 8 -> 1, and four toggles in a row restore width and columns.
C18_WidthCycle ==
    /\ [](phase = "rejected" <=> width \notin {1, 2, 4, 8})
    /\ [](Idle => FourTogglesRestore)
    /\ [][/\ phase # "rejected"
          /\ (Idle /\ op'.kind = "toggle_width") => width' = CycleNext(width)
          /\ width' # width
                 => (Idle /\ op'.kind = "toggle_width" /\ columns' * width' = 16)]_vars

\* After width toggles the width is again the one the program started with.
C18_Witness ==
    /\ Idle
    /\ op.kind = "toggle_width"
    /\ width = WIDTH_OPTIONS[index + 1]
    /\ width = 4

\* C19: while the application runs, both grids have ceil(size / 16) rows,
\* whatever the initial width and the toggles made, and every offset of the
\* file has its ASCII cell at row offset \div 16, column offset % 16.
C19_EveryByteDisplayed ==
    phase = "running"
        => /\ Len(ascii_table.rows) = (size + FIXED_ROW_WIDTH - 1) \div FIXED_ROW_WIDTH
           /\ Len(hex_table.rows) = Len(ascii_table.rows)
           /\ \A off \in 0..(size - 1) :
                  /\ (off \div 16) + 1 <= Len(ascii_table.rows)
                  /\ (off % 16) + 1 <= Len(ascii_table.rows[(off \div 16) + 1].cells)

\* C20: after save_chunk(offset, bytes) the file holds bytes at
\* [offset, offset + len(bytes)), is no shorter than before, every byte it had
\* outside that range is unchanged, and load_chunk of any range of the old
\* file outside the written one returns what it returned before the save.
C20_SaveChunkFrame ==
    bin_op.kind = "save"
        => LET lo == bin_op.offset
               hi == bin_op.offset + Len(bin_op.bytes)
               old == bin_op.before
           IN  /\ Len(disk) >= Len(old)
               /\ LoadChunkBody(disk, lo, hi - lo) = bin_op.bytes
               /\ \A i \in 0..(Len(old) - 1) :
                      (i < lo \/ i >= hi) => (i < Len(disk) /\ disk[i + 1] = old[i + 1])
               /\ \A a \in 0..Len(old), b \in 0..Len(old) :
                      (a <= b /\ (b <= lo \/ a >= hi))
                          => LoadChunkBody(disk, a, b - a) = LoadChunkBody(old, a, b - a)

====
